---- MODULE Spec2Model ----
(***************************************************************************)
(* A model of the OCI registry client of the dev container CLI             *)
(* (src/spec-configuration/containerCollectionsOCI.ts) and of the          *)
(* "features info dependsOn" command that drives the dependency graph      *)
(* builder and the installation order resolver.                            *)
(*                                                                         *)
(* Strings are sequences of one-character strings, so that lower-casing,   *)
(* splitting, searching and the two regular expressions are computed the   *)
(* way the code computes them.  Every exported function is one action: it  *)
(* is called from the idle state with an input drawn from a bounded set,   *)
(* and leaves its input, its returned value, the log lines it wrote and    *)
(* the requests it issued in the state.  The dependsOn command and the     *)
(* graph builder take several steps, and ConcurrentSpec runs several calls *)
(* of getBlob at once, one await at a time.                                *)
(***************************************************************************)
EXTENDS Integers, Sequences, FiniteSets, TLC

VARIABLES
    pc,         \* "idle", "returned", or the position inside a multi-step operation
    op,         \* the operation that was called last
    arg,        \* its input
    ret,        \* its returned value: Undefined or Defined(v)
    log,        \* the lines written to output, in order
    requests,   \* the requests handed to requestEnsureAuthenticated, in order
    ociCacheDir,    \* the files in the scratch directory of getBlob
    destCachePath,  \* the files in the destination directory of getBlob
    inflight,   \* the concurrent calls of getBlob, each with its position
    disk,       \* the directories the concurrent calls work in, by name
    stack,      \* the graph builder's recursion: the frames of the active path
    nodes,      \* the FNodes assembled so far, by canonical id
    discovered  \* the canonical ids in the order they were first resolved

vars == <<pc, op, arg, ret, log, requests, ociCacheDir, destCachePath,
          inflight, disk, stack, nodes, discovered>>

clientVars == <<requests, ociCacheDir, destCachePath, inflight, disk>>
builderVars == <<stack, nodes, discovered>>

(***************************************************************************)
(* Bounds of the model.                                                    *)
(***************************************************************************)
MaxSuffixTokens == 4
MaxSpaces == 1
MaxIndexEntries == 2
MaxTags == 3
MaxArchiveEntries == 2
MaxEdges == 3
MaxDepth == 5
MaxCalls == 2

(***************************************************************************)
(* JavaScript values.                                                      *)
(***************************************************************************)
Undefined == [defined |-> FALSE]
Defined(v) == [defined |-> TRUE, value |-> v]
\* A failure of the taxonomy, returned as a value.
Failure(kind) == [defined |-> FALSE, error |-> kind]
\* An async function whose promise rejects with an exception it did not catch.
Rejected(e) == [defined |-> FALSE, rejected |-> e]

\* F applied to the value of v, with v evaluated once.
Bind(v, F(_)) == CHOOSE y \in { F(x) : x \in {v} } : TRUE

\* A string is truthy when it is defined and not empty.
Truthy(o) == o.defined /\ o.value # <<>>

LogLine(level, msg) == [level |-> level, msg |-> msg]

(***************************************************************************)
(* Characters and strings.                                                 *)
(***************************************************************************)
LowerSeq == <<"a","b","c","d","e","f","g","h","i","j","k","l","m",
              "n","o","p","q","r","s","t","u","v","w","x","y","z">>
UpperSeq == <<"A","B","C","D","E","F","G","H","I","J","K","L","M",
              "N","O","P","Q","R","S","T","U","V","W","X","Y","Z">>
LowerChars == {LowerSeq[i] : i \in 1..Len(LowerSeq)}
UpperChars == {UpperSeq[i] : i \in 1..Len(UpperSeq)}
DigitChars == {"0","1","2","3","4","5","6","7","8","9"}

ToLowerChar(c) ==
    IF c \in UpperChars
    THEN LowerSeq[CHOOSE i \in 1..Len(UpperSeq) : UpperSeq[i] = c]
    ELSE c

\* String.prototype.toLowerCase
ToLowerCase(s) == [i \in 1..Len(s) |-> ToLowerChar(s[i])]

\* String.prototype.lastIndexOf for a one-character needle: 0-based, -1 when absent
LastIndexOf(s, c) ==
    IF \E i \in 1..Len(s) : s[i] = c
    THEN (CHOOSE i \in 1..Len(s) : s[i] = c /\ \A j \in (i+1)..Len(s) : s[j] # c) - 1
    ELSE -1

\* String.prototype.indexOf for a one-character needle: 0-based, -1 when absent
IndexOf(s, c) ==
    IF \E i \in 1..Len(s) : s[i] = c
    THEN (CHOOSE i \in 1..Len(s) : s[i] = c /\ \A j \in 1..(i-1) : s[j] # c) - 1
    ELSE -1

\* String.prototype.substring(from, to) and substring(from), 0-based
Substring(s, from, to) == SubSeq(s, from + 1, to)
SubstringFrom(s, from) == SubSeq(s, from + 1, Len(s))

\* String.prototype.split for a one-character separator
RECURSIVE Split(_, _)
Split(s, c) ==
    IF \E i \in 1..Len(s) : s[i] = c
    THEN LET i == CHOOSE k \in 1..Len(s) : s[k] = c /\ \A j \in 1..(k-1) : s[j] # c
         IN  <<SubSeq(s, 1, i - 1)>> \o Split(SubSeq(s, i + 1, Len(s)), c)
    ELSE <<s>>

\* Array.prototype.join
RECURSIVE Join(_, _)
Join(parts, sep) ==
    IF Len(parts) = 0 THEN <<>>
    ELSE IF Len(parts) = 1 THEN parts[1]
    ELSE parts[1] \o sep \o Join(Tail(parts), sep)

(***************************************************************************)
(* The two regular expressions.                                            *)
(***************************************************************************)
\* /^[a-z0-9]+([._-][a-z0-9]+)*(\/[a-z0-9]+([._-][a-z0-9]+)*)*$/ as an automaton:
\* "need" expects an alphanumeric, "word" is inside a run of them.
PathAlnum == LowerChars \cup DigitChars
PathSeparators == {".", "_", "-", "/"}

RECURSIVE PathScan(_, _, _)
PathScan(s, i, st) ==
    IF i > Len(s) THEN st = "word"
    ELSE IF s[i] \in PathAlnum THEN PathScan(s, i + 1, "word")
    ELSE IF s[i] \in PathSeparators /\ st = "word" THEN PathScan(s, i + 1, "need")
    ELSE FALSE

regexForPath(s) == PathScan(s, 1, "need")

\* /^[a-zA-Z0-9_][a-zA-Z0-9._-]{0,127}$/
MaxReferenceLength == 128
VersionFirstChars == LowerChars \cup UpperChars \cup DigitChars \cup {"_"}
VersionRestChars == VersionFirstChars \cup {".", "-"}

regexForVersionOrDigest(s) ==
    /\ Len(s) >= 1
    /\ Len(s) <= MaxReferenceLength
    /\ s[1] \in VersionFirstChars
    /\ \A i \in 2..Len(s) : s[i] \in VersionRestChars

(***************************************************************************)
(* getRef: parse a string into an OCIRef.                                  *)
(***************************************************************************)
S_sha256 == <<"s","h","a","2","5","6">>
S_latest == <<"l","a","t","e","s","t">>

\* The part of getRef after resource, tag and digest are known: the tag check,
\* the split on '/', the path check and the returned object.
getRefFinish(input, resource, tag, digest, logSoFar) ==
    IF Truthy(tag) /\ ~regexForVersionOrDigest(tag.value)
    THEN [ret |-> Undefined,
          log |-> Append(logSoFar, LogLine("Error", "Tag failed validation"))]
    ELSE
      LET splitOnSlash == Split(resource, "/")
          id        == splitOnSlash[Len(splitOnSlash)]
          registry  == splitOnSlash[1]
          namespace == Join(SubSeq(splitOnSlash, 2, Len(splitOnSlash) - 1), <<"/">>)
          path      == namespace \o <<"/">> \o id
          version   == IF Truthy(digest) THEN digest.value
                       ELSE IF Truthy(tag) THEN tag.value
                       ELSE S_latest
      IN  IF ~regexForPath(path)
          THEN [ret |-> Undefined,
                log |-> Append(logSoFar, LogLine("Error", "Path failed validation"))]
          ELSE [ret |-> Defined([id        |-> id,
                                 owner     |-> splitOnSlash[2],
                                 namespace |-> namespace,
                                 registry  |-> registry,
                                 resource  |-> resource,
                                 path      |-> path,
                                 version   |-> version,
                                 tag       |-> tag,
                                 digest    |-> digest]),
                log |-> Append(logSoFar, LogLine("Trace", "> input"))]

\* The digest branch: the input holds an '@'.
getRefDigest(input, indexOfLastAtCharacter) ==
    LET resource == Substring(input, 0, indexOfLastAtCharacter)
        digestWithHashingAlgorithm == SubstringFrom(input, indexOfLastAtCharacter + 1)
        splitOnColon == Split(digestWithHashingAlgorithm, ":")
    IN  IF Len(splitOnColon) # 2
        THEN [ret |-> Undefined,
              log |-> <<LogLine("Error", "Failed to parse digest")>>]
        ELSE IF splitOnColon[1] # S_sha256
        THEN [ret |-> Undefined,
              log |-> <<LogLine("Error", "Digest algorithm failed validation")>>]
        ELSE
          \* the failed regular expression is logged, and parsing goes on
          LET logged == IF ~regexForVersionOrDigest(splitOnColon[2])
                        THEN <<LogLine("Error", "Digest failed validation")>>
                        ELSE <<>>
          IN  getRefFinish(input, resource, Undefined,
                           Defined(digestWithHashingAlgorithm), logged)

\* getRefTag without the test for a ':' that belongs to the registry's port.
getRefTagPortIsTag(input, indexOfLastColon) ==
    IF indexOfLastColon = -1
    THEN getRefFinish(input, input, Defined(S_latest), Undefined, <<>>)
    ELSE getRefFinish(input,
                      Substring(input, 0, indexOfLastColon),
                      Defined(SubstringFrom(input, indexOfLastColon + 1)),
                      Undefined, <<>>)

\* getRefTag cutting the tag at the first ':' of the input instead of the last.
getRefTagFirstColon(input, indexOfLastColon) ==
    IF indexOfLastColon = -1 \/ indexOfLastColon < LastIndexOf(input, "/")
    THEN getRefFinish(input, input, Defined(S_latest), Undefined, <<>>)
    ELSE getRefFinish(input,
                      Substring(input, 0, IndexOf(input, ":")),
                      Defined(SubstringFrom(input, IndexOf(input, ":") + 1)),
                      Undefined, <<>>)

\* The tag branch: the input holds no '@'.
getRefTag(input, indexOfLastColon) ==
    IF indexOfLastColon = -1 \/ indexOfLastColon < LastIndexOf(input, "/")
    THEN getRefFinish(input, input, Defined(S_latest), Undefined, <<>>)
    ELSE getRefFinish(input,
                      Substring(input, 0, indexOfLastColon),
                      Defined(SubstringFrom(input, indexOfLastColon + 1)),
                      Undefined, <<>>)

getRef(rawInput) ==
    LET input == ToLowerCase(rawInput)
        indexOfLastColon == LastIndexOf(input, ":")
        indexOfLastAtCharacter == LastIndexOf(input, "@")
    IN  IF indexOfLastAtCharacter # -1
        THEN getRefDigest(input, indexOfLastAtCharacter)
        ELSE getRefTag(input, indexOfLastColon)

(***************************************************************************)
(* JSON.  A text is a sequence of tokens: the punctuation "{", "}", ":",   *)
(* ",", "[", "]", the white space " ", the literal "null", a digit, or any *)
(* other string, which stands for a quoted string literal.  A parsed value *)
(* is [t |-> "null"], [t |-> "num", v], [t |-> "str", v],                  *)
(* [t |-> "arr", e |-> elements] or                                        *)
(* [t |-> "obj", m |-> <<key, value>> pairs in insertion order].           *)
(***************************************************************************)
JsonPunctuation == {"{", "}", "[", "]", ":", ",", " "}
JsonNull == [t |-> "null"]
JsonFail == [ok |-> FALSE]

IsJsonString(tok) == tok \notin JsonPunctuation /\ tok \notin DigitChars /\ tok # "null"

RECURSIVE SkipWs(_)
SkipWs(ts) == IF ts # <<>> /\ Head(ts) = " " THEN SkipWs(Tail(ts)) ELSE ts

\* obj[key] = value: a repeated key keeps its first position and takes the new value
SetMember(m, key, value) ==
    IF \E i \in 1..Len(m) : m[i][1] = key
    THEN [i \in 1..Len(m) |-> IF m[i][1] = key THEN <<key, value>> ELSE m[i]]
    ELSE Append(m, <<key, value>>)

RECURSIVE ParseValue(_), ParseMembers(_, _), ParseElements(_, _)
ParseValue(text) ==
    Bind(SkipWs(text), LAMBDA ts :
        IF ts = <<>> THEN JsonFail
        ELSE IF Head(ts) = "{" THEN ParseMembers(SkipWs(Tail(ts)), <<>>)
        ELSE IF Head(ts) = "[" THEN ParseElements(SkipWs(Tail(ts)), <<>>)
        ELSE IF Head(ts) = "null" THEN [ok |-> TRUE, value |-> JsonNull, rest |-> Tail(ts)]
        ELSE IF Head(ts) \in DigitChars
             THEN [ok |-> TRUE, value |-> [t |-> "num", v |-> Head(ts)], rest |-> Tail(ts)]
        ELSE IF IsJsonString(Head(ts))
             THEN [ok |-> TRUE, value |-> [t |-> "str", v |-> Head(ts)], rest |-> Tail(ts)]
        ELSE JsonFail)

\* After a member or an element: the closing token ends the value, a "," that is
\* followed by something else than the closing token continues it.
AfterItem(rest, close, Done(_), More(_)) ==
    Bind(SkipWs(rest), LAMBDA afterValue :
        IF afterValue = <<>> THEN JsonFail
        ELSE IF Head(afterValue) = close THEN Done(Tail(afterValue))
        ELSE IF Head(afterValue) = ","
             THEN Bind(SkipWs(Tail(afterValue)), LAMBDA next :
                      IF next # <<>> /\ Head(next) # close THEN More(next) ELSE JsonFail)
        ELSE JsonFail)

\* text starts after "{" or "," and white space; read holds the members read so far
ParseMembers(text, read) ==
    Bind(<<text, read>>, LAMBDA a :
        LET ts == a[1]
            m == a[2]
        IN  IF ts = <<>> THEN JsonFail
            ELSE IF Head(ts) = "}" /\ m = <<>>
                 THEN [ok |-> TRUE, value |-> [t |-> "obj", m |-> m], rest |-> Tail(ts)]
            ELSE IF ~IsJsonString(Head(ts)) THEN JsonFail
            ELSE Bind(SkipWs(Tail(ts)), LAMBDA afterKey :
                   IF afterKey = <<>> \/ Head(afterKey) # ":" THEN JsonFail
                   ELSE Bind(ParseValue(Tail(afterKey)), LAMBDA v :
                          IF ~v.ok THEN JsonFail
                          ELSE Bind(SetMember(m, Head(ts), v.value), LAMBDA members :
                                 AfterItem(v.rest, "}",
                                     LAMBDA rest : [ok |-> TRUE,
                                                    value |-> [t |-> "obj", m |-> members],
                                                    rest |-> rest],
                                     LAMBDA next : ParseMembers(next, members))))))

\* text starts after "[" or "," and white space; read holds the elements read so far
ParseElements(text, read) ==
    Bind(<<text, read>>, LAMBDA a :
        LET ts == a[1]
            e == a[2]
        IN  IF ts = <<>> THEN JsonFail
            ELSE IF Head(ts) = "]" /\ e = <<>>
                 THEN [ok |-> TRUE, value |-> [t |-> "arr", e |-> e], rest |-> Tail(ts)]
            ELSE Bind(ParseValue(ts), LAMBDA v :
                   IF ~v.ok THEN JsonFail
                   ELSE Bind(Append(e, v.value), LAMBDA elements :
                          AfterItem(v.rest, "]",
                              LAMBDA rest : [ok |-> TRUE,
                                             value |-> [t |-> "arr", e |-> elements],
                                             rest |-> rest],
                              LAMBDA next : ParseElements(next, elements)))))

\* JSON.parse: [ok |-> FALSE] stands for the SyntaxError it throws
JsonParse(text) ==
    Bind(ParseValue(text), LAMBDA v :
        IF v.ok /\ SkipWs(v.rest) = <<>> THEN [ok |-> TRUE, value |-> v.value] ELSE JsonFail)

\* JSON.stringify(value): no white space, members in insertion order
RECURSIVE JsonStringify(_), StringifyMembers(_), StringifyElements(_)
JsonStringify(v) ==
    IF v.t = "obj" THEN <<"{">> \o StringifyMembers(v.m) \o <<"}">>
    ELSE IF v.t = "arr" THEN <<"[">> \o StringifyElements(v.e) \o <<"]">>
    ELSE IF v.t = "null" THEN <<"null">>
    ELSE <<v.v>>

StringifyMembers(m) ==
    IF m = <<>> THEN <<>>
    ELSE <<m[1][1], ":">> \o JsonStringify(m[1][2])
         \o (IF Len(m) > 1 THEN <<",">> \o StringifyMembers(Tail(m)) ELSE <<>>)

StringifyElements(e) ==
    IF e = <<>> THEN <<>>
    ELSE JsonStringify(e[1])
         \o (IF Len(e) > 1 THEN <<",">> \o StringifyElements(Tail(e)) ELSE <<>>)

\* value[key] of a parsed object: Undefined when the member is missing
Member(v, key) ==
    IF v.t = "obj" /\ \E i \in 1..Len(v.m) : v.m[i][1] = key
    THEN Defined(v.m[CHOOSE i \in 1..Len(v.m) : v.m[i][1] = key][2])
    ELSE Undefined

(***************************************************************************)
(* Digests.  crypto's SHA-256 is taken to be collision free: the hex       *)
(* digest of a text is represented by the text it was computed from.       *)
(***************************************************************************)
Sha256Hex(text) == [sha256of |-> text]
DigestString(algorithm, hex) == [algorithm |-> algorithm, hex |-> hex]
EmptyString == [algorithm |-> "", hex |-> <<>>]

(***************************************************************************)
(* requestEnsureAuthenticated, the HTTP collaborator: it returns nothing,  *)
(* throws, or returns a response.                                          *)
(***************************************************************************)
NoResponse == [kind |-> "none"]
RequestThrows == [kind |-> "throw"]
Response(statusCode, resBody, resHeaders) ==
    [kind |-> "response", statusCode |-> statusCode, resBody |-> resBody,
     resHeaders |-> resHeaders]

\* headers[name]
Header(headers, name) ==
    IF name \in DOMAIN headers THEN Defined(headers[name]) ELSE Undefined

DEVCONTAINER_MANIFEST_MEDIATYPE == "application/vnd.devcontainers"

(***************************************************************************)
(* getJsonWithMimeType.                                                    *)
(***************************************************************************)
getJsonWithMimeType(res) ==
    IF res.kind = "none"
    THEN [ret |-> Undefined, log |-> <<LogLine("Error", "Request failed")>>]
    ELSE IF res.kind = "throw"
    THEN [ret |-> Undefined, log |-> <<LogLine("Error", "Failed to parse JSON")>>]
    ELSE IF res.statusCode > 299
    THEN [ret |-> Undefined, log |-> <<LogLine("Trace", "Did not fetch target")>>]
    ELSE LET parsedBody == JsonParse(res.resBody)
         IN  IF ~parsedBody.ok
             THEN [ret |-> Undefined, log |-> <<LogLine("Error", "Failed to parse JSON")>>]
             ELSE [ret |-> Defined([body |-> parsedBody.value, headers |-> res.resHeaders]),
                   log |-> <<LogLine("Trace", "Fetched")>>]

(***************************************************************************)
(* getManifest.                                                            *)
(***************************************************************************)
\* headers['docker-content-digest'] || headers['Docker-Content-Digest']
HeaderDigest(headers) ==
    LET lower == Header(headers, "docker-content-digest")
    IN  IF lower.defined /\ lower.value # EmptyString
        THEN lower
        ELSE Header(headers, "Docker-Content-Digest")

getManifest(res, ref) ==
    Bind(getJsonWithMimeType(res), LAMBDA got :
        IF ~got.ret.defined
        THEN got
        ELSE LET body == got.ret.value.body
                 headers == got.ret.value.headers
                 manifestStringified == JsonStringify(body)
                 fromHeader == HeaderDigest(headers)
                 contentDigest ==
                     IF fromHeader.defined /\ fromHeader.value # EmptyString
                     THEN fromHeader.value
                     ELSE DigestString("sha256", Sha256Hex(manifestStringified))
             IN  [ret |-> Defined([contentDigest |-> contentDigest,
                                   manifestObj   |-> body,
                                   manifestStr   |-> manifestStringified,
                                   canonicalId   |-> <<ref.resource, "@", contentDigest>>]),
                  log |-> got.log])

\* Whether a parsed value is truthy in a condition.
JsonTruthy(v) ==
    ~ \/ v = JsonNull
      \/ (v.t = "num" /\ v.v = "0")
      \/ (v.t = "str" /\ v.v = "")

Request(url, accept) == [type |-> "GET", url |-> url, accept |-> accept]

(***************************************************************************)
(* fetchOCIManifestIfExists.                                               *)
(***************************************************************************)
S_localhost == <<"l","o","c","a","l","h","o","s","t">>

\* String.prototype.startsWith
StartsWith(s, prefix) ==
    Len(s) >= Len(prefix) /\ SubSeq(s, 1, Len(prefix)) = prefix

\* checkManifestMediaType without the comparison of config.mediaType.
checkManifestMediaTypeSkipped(manifestContainer, logSoFar, issued) ==
    [ret |-> manifestContainer, log |-> logSoFar, requests |-> issued]

\* The check of manifestObj.config.mediaType and the returned container.
checkManifestMediaType(manifestContainer, logSoFar, issued) ==
    LET manifestObj == manifestContainer.value.manifestObj
        config == Member(manifestObj, "config")
    IN  IF ~config.defined \/ config.value = JsonNull
        THEN [ret |-> Rejected("TypeError"), log |-> logSoFar, requests |-> issued]
        ELSE IF Member(config.value, "mediaType")
                    # Defined([t |-> "str", v |-> DEVCONTAINER_MANIFEST_MEDIATYPE])
        THEN [ret |-> Undefined,
              log |-> Append(logSoFar, LogLine("Error", "(!) Unexpected manifest media type")),
              requests |-> issued]
        ELSE [ret |-> manifestContainer, log |-> logSoFar, requests |-> issued]

\* res is what requestEnsureAuthenticated answers if it is asked.
fetchOCIManifestIfExists(ref, manifestDigest, res) ==
    IF IndexOf(ref.registry, ".") < 0 /\ ~StartsWith(ref.registry, S_localhost)
    THEN [ret |-> Undefined,
          log |-> <<LogLine("Error", "ERR: Registry is not a valid domain name or IP address")>>,
          requests |-> <<>>]
    ELSE
      LET reference == IF Truthy(manifestDigest) THEN manifestDigest.value ELSE ref.version
          manifestUrl == <<"https://", ref.registry, "/v2/", ref.path, "/manifests/", reference>>
          issued == <<Request(manifestUrl, "application/vnd.oci.image.manifest.v1+json")>>
      IN  Bind(getManifest(res, ref), LAMBDA manifestContainer :
            LET logSoFar == <<LogLine("Trace", "manifest url")>> \o manifestContainer.log
            IN  IF ~manifestContainer.ret.defined
                      \/ ~JsonTruthy(manifestContainer.ret.value.manifestObj)
                THEN [ret |-> Undefined, log |-> logSoFar, requests |-> issued]
                ELSE checkManifestMediaType(manifestContainer.ret, logSoFar, issued))

(***************************************************************************)
(* getImageIndexEntryForPlatform.                                          *)
(***************************************************************************)
mapNodeArchitectureToGOARCH(arch) == IF arch = "x64" THEN "amd64" ELSE arch

\* mapNodeOSToGOOS without the case for 'win32'.
mapNodeOSToGOOSIdentity(os) == os

mapNodeOSToGOOS(os) == IF os = "win32" THEN "windows" ELSE os

\* m.platform?.architecture and m.platform?.os
PlatformField(m, field) ==
    LET platform == Member(m, "platform")
    IN  IF ~platform.defined \/ platform.value = JsonNull
        THEN Undefined
        ELSE Member(platform.value, field)

\* Array.prototype.find with the callback of getImageIndexEntryForPlatform;
\* reading m.platform of a null entry throws.
RECURSIVE findEntryForPlatform(_, _)
findEntryForPlatform(manifests, info) ==
    IF manifests = <<>> THEN Undefined
    ELSE IF Head(manifests) = JsonNull THEN Rejected("TypeError")
    ELSE IF /\ PlatformField(Head(manifests), "architecture")
                   = Defined([t |-> "str", v |-> info.arch])
            /\ PlatformField(Head(manifests), "os") = Defined([t |-> "str", v |-> info.os])
         THEN Defined(Head(manifests))
    ELSE findEntryForPlatform(Tail(manifests), info)

getImageIndexEntryForPlatform(res, platformInfo) ==
    Bind(getJsonWithMimeType(res), LAMBDA response :
        IF ~response.ret.defined
        THEN response
        ELSE
          LET imageIndex == response.ret.value.body
              ociFriendlyPlatformInfo ==
                  [arch |-> mapNodeArchitectureToGOARCH(platformInfo.arch),
                   os   |-> mapNodeOSToGOOS(platformInfo.os)]
              manifests == Member(imageIndex, "manifests")
          IN  IF ~JsonTruthy(imageIndex)
              THEN [ret |-> Undefined,
                    log |-> Append(response.log,
                                   LogLine("Error", "Unwrapped response for image index is undefined"))]
              ELSE IF ~manifests.defined \/ manifests.value.t # "arr"
              THEN [ret |-> Rejected("TypeError"), log |-> response.log]
              ELSE [ret |-> findEntryForPlatform(manifests.value.e, ociFriendlyPlatformInfo),
                    log |-> response.log])

(***************************************************************************)
(* getPublishedVersions.                                                   *)
(***************************************************************************)
\* The characters of the tag names of the model.
StringChars(str) ==
    CASE str = "latest" -> S_latest
      [] str = "0.9.0"  -> <<"0", ".", "9", ".", "0">>
      [] str = "1.0.0"  -> <<"1", ".", "0", ".", "0">>
      [] str = "1.2.0"  -> <<"1", ".", "2", ".", "0">>
      [] str = "1.10.0" -> <<"1", ".", "1", "0", ".", "0">>

\* The order of the UTF-16 code units of the characters of tags.
CodeUnitOrder == <<"-", ".">> \o <<"0","1","2","3","4","5","6","7","8","9">>
                     \o UpperSeq \o <<"_">> \o LowerSeq
CodeUnit(c) == CHOOSE i \in 1..Len(CodeUnitOrder) : CodeUnitOrder[i] = c

\* a < b on strings: the first differing code unit decides, a proper prefix is less
RECURSIVE StringLess(_, _)
StringLess(a, b) ==
    IF b = <<>> THEN FALSE
    ELSE IF a = <<>> THEN TRUE
    ELSE IF a[1] # b[1] THEN CodeUnit(a[1]) < CodeUnit(b[1])
    ELSE StringLess(Tail(a), Tail(b))

\* /^[0-9]+$/
IsNumeric(a) == a # <<>> /\ \A i \in 1..Len(a) : a[i] \in DigitChars

\* +a for a numeric string
RECURSIVE ToNumber(_)
ToNumber(a) ==
    IF a = <<>> THEN 0
    ELSE 10 * ToNumber(SubSeq(a, 1, Len(a) - 1)) + (CodeUnit(a[Len(a)]) - CodeUnit("0"))

\* semver.compareIdentifiers
compareIdentifiers(a, b) ==
    LET anum == IsNumeric(a)
        bnum == IsNumeric(b)
    IN  IF anum /\ bnum
        THEN (IF ToNumber(a) = ToNumber(b) THEN 0
              ELSE IF ToNumber(a) < ToNumber(b) THEN -1 ELSE 1)
        ELSE IF a = b THEN 0
        ELSE IF anum /\ ~bnum THEN -1
        ELSE IF bnum /\ ~anum THEN 1
        ELSE IF StringLess(a, b) THEN -1
        ELSE 1

\* The comparator handed to sort.
compareTags(a, b) == compareIdentifiers(StringChars(a), StringChars(b))

\* Array.prototype.sort, a stable sort, as an insertion sort
RECURSIVE InsertTag(_, _)
InsertTag(sorted, x) ==
    IF sorted = <<>> THEN <<x>>
    ELSE IF compareTags(sorted[Len(sorted)], x) <= 0 THEN Append(sorted, x)
    ELSE Bind(InsertTag(SubSeq(sorted, 1, Len(sorted) - 1), x),
              LAMBDA shorter : Append(shorter, sorted[Len(sorted)]))

RECURSIVE SortTags(_)
SortTags(tags) ==
    IF tags = <<>> THEN <<>>
    ELSE Bind(SortTags(SubSeq(tags, 1, Len(tags) - 1)),
              LAMBDA sorted : InsertTag(sorted, tags[Len(tags)]))

\* The sorted branch: 'latest' is taken out, the rest sorted, 'latest' put in front.
sortPublishedVersions(tags) ==
    LET hasLatest == \E i \in 1..Len(tags) : tags[i] = "latest"
        sortedVersions == SortTags(SelectSeq(tags, LAMBDA f : f # "latest"))
    IN  IF hasLatest THEN <<"latest">> \o sortedVersions ELSE sortedVersions

\* What follows a response with a status of at most 299.
publishedVersionsOfBody(body, sorted) ==
    Bind(JsonParse(body), LAMBDA publishedVersionsResponse :
        LET caught == [ret |-> Undefined,
                       log |-> <<LogLine("Error", "Failed to parse published versions")>>]
        IN  IF ~publishedVersionsResponse.ok \/ publishedVersionsResponse.value = JsonNull
            THEN caught
            ELSE Bind(Member(publishedVersionsResponse.value, "tags"), LAMBDA tags :
                   IF ~tags.defined
                   THEN (IF sorted THEN caught ELSE [ret |-> Undefined, log |-> <<>>])
                   ELSE Bind([i \in 1..Len(tags.value.e) |-> tags.value.e[i].v], LAMBDA names :
                          [ret |-> Defined(IF sorted THEN sortPublishedVersions(names) ELSE names),
                           log |-> <<>>])))

\* getPublishedVersions that treats 404 like every other status above 299.
publishedVersionsOfResponseNo404(res, sorted) ==
    IF res.statusCode > 299
    THEN [ret |-> Undefined,
          log |-> <<LogLine("Error", "(!) ERR: Could not fetch published tags")>>]
    ELSE publishedVersionsOfBody(res.resBody, sorted)

\* What follows a response: the status codes, then the body.
publishedVersionsOfResponse(res, sorted) ==
    IF res.statusCode = 404
    THEN [ret |-> Defined(<<>>), log |-> <<>>]
    ELSE IF res.statusCode > 299
    THEN [ret |-> Undefined,
          log |-> <<LogLine("Error", "(!) ERR: Could not fetch published tags")>>]
    ELSE publishedVersionsOfBody(res.resBody, sorted)

getPublishedVersions(ref, sorted, res) ==
    LET url == <<"https://", ref.registry, "/v2/", ref.namespace, "/", ref.id, "/tags/list">>
        issued == <<Request(url, "application/json")>>
    IN  Bind(IF res.kind = "none"
             THEN [ret |-> Undefined, log |-> <<LogLine("Error", "Request failed")>>]
             ELSE IF res.kind = "throw"
             THEN [ret |-> Undefined,
                   log |-> <<LogLine("Error", "Failed to parse published versions")>>]
             ELSE publishedVersionsOfResponse(res, sorted),
             LAMBDA r : [ret |-> r.ret, log |-> r.log, requests |-> issued])

(***************************************************************************)
(* getBlob.  An archive is a sequence of entries [path, type, content];    *)
(* a directory of the file system is the set of entries written into it.   *)
(***************************************************************************)
\* String.prototype.indexOf for a string needle: 0-based, -1 when absent
IndexOfString(s, f) ==
    LET at == { i \in 1..(Len(s) - Len(f) + 1) : SubSeq(s, i, i + Len(f) - 1) = f }
    IN  IF at = {} THEN -1 ELSE (CHOOSE i \in at : \A j \in at : i <= j) - 1

\* ignoredFilesDuringExtraction.some(f => path.indexOf(f) !== -1)
isIgnoredDuringExtraction(path, ignoredFilesDuringExtraction) ==
    \E k \in 1..Len(ignoredFilesDuringExtraction) :
        IndexOfString(path, ignoredFilesDuringExtraction[k]) # -1

\* The filter that lists every entry it lets through, whatever its type.
isListedWhateverType(entry) == TRUE

\* stat.type.toString() === 'File': the entry is pushed onto files
isListed(entry) == entry.type = "File"

\* tar.x with the first filter: the entries it extracts, and the files it lists
extractBlob(entries, ignoredFilesDuringExtraction) ==
    LET extracted == SelectSeq(entries, LAMBDA e :
                         ~isIgnoredDuringExtraction(e.path, ignoredFilesDuringExtraction))
        listed == SelectSeq(extracted, isListed)
    IN  [extracted |-> {extracted[i] : i \in 1..Len(extracted)},
         files |-> [i \in 1..Len(listed) |-> listed[i].path]]

\* tar.x with the second filter: path === `./${metadataFile}`
extractMetadataFile(entries, metadataFile) ==
    LET extracted == SelectSeq(entries, LAMBDA e : e.path = <<".", "/">> \o metadataFile)
    IN  {extracted[i] : i \in 1..Len(extracted)}

\* isLocalFile(path.join(ociCacheDir, metadataFile)), then jsonc.parse of the file
readMetadata(dir, metadataFile) ==
    LET found == { e \in dir : e.path = <<".", "/">> \o metadataFile /\ e.type = "File" }
    IN  IF found = {} THEN [metadata |-> Undefined, log |-> <<>>]
        ELSE Bind(JsonParse((CHOOSE e \in found : TRUE).content), LAMBDA parsed :
                 [metadata |-> IF parsed.ok THEN Defined(parsed.value) ELSE Undefined,
                  log |-> <<LogLine("Trace", "Found metadata file in blob")>>])

BlobTar(archive) == [path |-> <<"b","l","o","b",".","t","a","r">>, type |-> "File",
                     content |-> archive]

\* The steps of getBlob after a response with a status of at most 299.  The
\* archive is [entries, truncated]: tar.x throws at the end of a truncated one.
getBlobExtract(archive, ignoredFilesDuringExtraction, metadataFile, scratch, dest) ==
    Bind(extractBlob(archive.entries, ignoredFilesDuringExtraction), LAMBDA x :
        IF archive.truncated
        THEN [ret |-> Undefined,
              log |-> <<LogLine("Error", "Error getting blob")>>,
              ociCacheDir |-> scratch \cup {BlobTar(archive)},
              destCachePath |-> dest \cup x.extracted]
        ELSE IF ~Truthy(metadataFile)
        THEN [ret |-> Defined([files |-> x.files, metadata |-> Undefined]),
              log |-> <<LogLine("Trace", "Files extracted from blob")>>,
              ociCacheDir |-> scratch \cup {BlobTar(archive)},
              destCachePath |-> dest \cup x.extracted]
        ELSE Bind(scratch \cup {BlobTar(archive)}
                      \cup extractMetadataFile(archive.entries, metadataFile.value),
                  LAMBDA withMetadata :
                 Bind(readMetadata(withMetadata, metadataFile.value), LAMBDA read :
                     [ret |-> Defined([files |-> x.files, metadata |-> read.metadata]),
                      log |-> <<LogLine("Trace", "Files extracted from blob")>> \o read.log,
                      ociCacheDir |-> withMetadata,
                      destCachePath |-> dest \cup x.extracted])))

getBlob(res, ignoredFilesDuringExtraction, metadataFile, scratch, dest) ==
    IF res.kind = "none"
    THEN [ret |-> Undefined, log |-> <<LogLine("Error", "Request failed")>>,
          ociCacheDir |-> scratch, destCachePath |-> dest]
    ELSE IF res.kind = "throw"
    THEN [ret |-> Undefined, log |-> <<LogLine("Error", "Error getting blob")>>,
          ociCacheDir |-> scratch, destCachePath |-> dest]
    ELSE IF res.statusCode > 299
    THEN [ret |-> Undefined, log |-> <<LogLine("Error", "Failed to fetch blob")>>,
          ociCacheDir |-> scratch, destCachePath |-> dest]
    ELSE getBlobExtract(res.resBody, ignoredFilesDuringExtraction, metadataFile, scratch, dest)

(***************************************************************************)
(* The dependency graph builder and the installation order resolver        *)
(* (spec-configuration/containerFeaturesOrder), as the design describes    *)
(* them.  Feature references resolve to canonical ids; the metadata of a   *)
(* canonical id declares its dependsOn references in order.                *)
(***************************************************************************)
FeatureRefs == {"A", "A1", "B", "C"}

\* Two references may name the same content: "A" and "A1" are one feature.
CanonicalIdOf(ref) ==
    CASE ref = "A"  -> "cA"
      [] ref = "A1" -> "cA"
      [] ref = "B"  -> "cB"
      [] ref = "C"  -> "cC"

CanonicalIds == { CanonicalIdOf(r) : r \in FeatureRefs }

Frame(canonicalId, id, children) ==
    [canonicalId |-> canonicalId, id |-> id, children |-> children, next |-> 1]

\* The frame below the active path: its children are the requested features.
RootFrame(roots) == Frame("(requested)", "(requested)", roots)

Top == stack[Len(stack)]
ActivePath == { stack[i].canonicalId : i \in 2..Len(stack) }

\* The top frame moves on to its next child.
Advance(frames) ==
    [frames EXCEPT ![Len(frames)].next = frames[Len(frames)].next + 1]

\* A builder that does not look at the active path.
failsOnActivePathNever(canonicalId, activePath) == FALSE

\* Whether a reference that is on the active path ends the build.
failsOnActivePath(canonicalId, activePath) == canonicalId \in activePath

\* A node is ready whatever it depends on.
isReadyAlways(node, placed) == TRUE

\* The order resolver: a node is ready when all it depends on is placed.
isReady(node, placed) ==
    \A i \in 1..Len(node.dependsOn) : node.dependsOn[i] \in placed

Position(q, x) ==
    IF \E i \in 1..Len(q) : q[i] = x
    THEN CHOOSE i \in 1..Len(q) : q[i] = x /\ \A j \in 1..(i - 1) : q[j] # x
    ELSE Len(q) + 1

\* The rank of a node: its place in the override order, then its declaration.
Rank(canonicalId, overrideIds, declared) ==
    Position(overrideIds, canonicalId) * (Len(declared) + 1) + Position(declared, canonicalId)

\* The override order names a feature before one it depends on.
overrideContradicts(graph, overrideIds) ==
    \E i, j \in 1..Len(overrideIds) :
        /\ i < j
        /\ overrideIds[i] \in DOMAIN graph
        /\ \E k \in 1..Len(graph[overrideIds[i]].dependsOn) :
              graph[overrideIds[i]].dependsOn[k] = overrideIds[j]

RECURSIVE placeNext(_, _, _, _)
placeNext(graph, overrideIds, declared, plan) ==
    LET placed == { plan[i].canonicalId : i \in 1..Len(plan) }
        ready == { c \in DOMAIN graph \ placed : isReady(graph[c], placed) }
    IN  IF DOMAIN graph \ placed = {} THEN Defined(plan)
        ELSE IF ready = {} THEN Failure("CycleError")
        ELSE Bind(CHOOSE c \in ready :
                      \A d \in ready : Rank(c, overrideIds, declared) <= Rank(d, overrideIds, declared),
                  LAMBDA c :
                      placeNext(graph, overrideIds, declared,
                                Append(plan, [id |-> graph[c].id, canonicalId |-> c])))

computeInstallationOrder(graph, overrideFeatureInstallOrder, declared) ==
    Bind([i \in 1..Len(overrideFeatureInstallOrder)
              |-> CanonicalIdOf(overrideFeatureInstallOrder[i])],
         LAMBDA overrideIds :
             IF overrideContradicts(graph, overrideIds)
             THEN Failure("OverrideConflict")
             ELSE placeNext(graph, overrideIds, declared, <<>>))

(***************************************************************************)
(* The inputs of getRef: a prefix followed by up to MaxSuffixTokens tokens.*)
(***************************************************************************)
RefPrefixes == { <<"G","h","c","r",".","i","o","/","O","r","g","/","f","e","a","t">>,
                 <<"h",".","i","o",":","8","0","/","o">> }

RefTokens == { <<":">>, <<"@">>, <<"/">>, <<"-">>, <<"B">>, <<"v","1">>, S_sha256 }

RECURSIVE TokenStrings(_)
TokenStrings(n) ==
    IF n = 0 THEN { <<>> }
    ELSE LET shorter == TokenStrings(n - 1)
         IN  shorter \cup { s \o t : s \in shorter, t \in RefTokens }

RefInputs == { p \o s : p \in RefPrefixes, s \in TokenStrings(MaxSuffixTokens) }

(***************************************************************************)
(* The responses of the registry.                                          *)
(***************************************************************************)
\* The positions of a text of length n at which white space is inserted.
RECURSIVE InsertSpaces(_, _, _)
InsertSpaces(text, at, i) ==
    IF i > Len(text) THEN (IF i - 1 \in at THEN <<" ">> ELSE <<>>)
    ELSE (IF i - 1 \in at THEN <<" ">> ELSE <<>>) \o <<text[i]>> \o InsertSpaces(text, at, i + 1)

Spaced(text) ==
    { InsertSpaces(text, at, 1) :
        at \in { S \in SUBSET (0..Len(text)) : Cardinality(S) <= MaxSpaces } }

ManifestTexts ==
    { <<"{", "config", ":", "{", "mediaType", ":", "application/vnd.devcontainers", "}", "}">>,
      <<"{", "config", ":", "{", "mediaType", ":", "application/vnd.oci.image.config.v1+json", "}", "}">>,
      <<"{", "a", ":", "1", "}">>,
      <<"{", "a", ":", "1">>,
      <<"null">> }

ManifestBodies == UNION { Spaced(t) : t \in ManifestTexts }

RegistryDigest == DigestString("sha256", Sha256Hex(<<"stored by the registry">>))

DigestHeaders ==
    { <<>>,
      "docker-content-digest" :> RegistryDigest,
      "Docker-Content-Digest" :> RegistryDigest,
      "docker-content-digest" :> EmptyString }

OkStatuses == {200, 299}
ErrorStatuses == {300, 404, 500}

FailedResponses ==
    {NoResponse, RequestThrows}
        \cup { Response(st, <<"errors">>, <<>>) : st \in ErrorStatuses }

ManifestResponses ==
    FailedResponses
        \cup { Response(st, b, h) : st \in OkStatuses, b \in ManifestBodies, h \in DigestHeaders }

\* The refs the registry client is called with: results of getRef.
ClientRefInputs ==
    { <<"g","h","c","r",".","i","o","/","o","r","g","/","f","e","a","t",":","v","1">>,
      <<"l","o","c","a","l","h","o","s","t",":","8","0","/","o","r","g","/","f","e","a","t">>,
      <<"r","e","g","/","o","r","g","/","f","e","a","t">>,
      <<"l","o","c","a","l","h","o","s","t","x","/","o","r","g","/","f","e","a","t">> }

ClientRefs == { getRef(i).ret.value : i \in ClientRefInputs }

ManifestDigests ==
    { Undefined, Defined(S_sha256 \o <<":", "a", "b">>) }

\* Image indexes: entries with a digest and, possibly, a platform.
DigestNames == <<"d1", "d2", "d3", "d4", "d5", "d6">>
Architectures == {"amd64", "x64", "arm64"}
OperatingSystems == {"windows", "win32", "linux"}
Platforms ==
    {Undefined}
        \cup { Defined([architecture |-> a, os |-> o]) : a \in Architectures, o \in OperatingSystems }

RECURSIVE SeqsUpTo(_, _)
SeqsUpTo(S, n) ==
    IF n = 0 THEN { <<>> }
    ELSE LET shorter == SeqsUpTo(S, n - 1)
         IN  shorter \cup { Append(q, x) : q \in shorter, x \in S }

IndexEntry(i, platform) ==
    [t |-> "obj",
     m |-> <<<<"digest", [t |-> "str", v |-> DigestNames[i]]>>>>
           \o (IF platform.defined
               THEN <<<<"platform",
                        [t |-> "obj",
                         m |-> << <<"architecture", [t |-> "str", v |-> platform.value.architecture]>>,
                                  <<"os", [t |-> "str", v |-> platform.value.os]>> >>]>>>>
               ELSE <<>>)]

\* The body of an image index response whose entries have these platforms.
IndexBody(platforms) ==
    JsonStringify([t |-> "obj",
                   m |-> << <<"manifests",
                              [t |-> "arr",
                               e |-> [i \in 1..Len(platforms) |-> IndexEntry(i, platforms[i])]]>> >>])

HostPlatforms == { [arch |-> a, os |-> o] : a \in {"x64", "arm64"}, o \in {"win32", "linux"} }

\* Tag lists: up to MaxTags different tags in any order.
TagNames == {"latest", "0.9.0", "1.0.0", "1.2.0", "1.10.0"}

TagLists ==
    { q \in SeqsUpTo(TagNames, MaxTags) : \A i, j \in 1..Len(q) : i # j => q[i] # q[j] }

\* The body of a tags/list response with these tags.
TagListBody(tags) ==
    JsonStringify([t |-> "obj",
                   m |-> << <<"name", [t |-> "str", v |-> "org/feat"]>>,
                            <<"tags",
                              [t |-> "arr",
                               e |-> [i \in 1..Len(tags) |-> [t |-> "str", v |-> tags[i]]]]>> >>])

TagInputs ==
    { [tags |-> q, res |-> Response(200, TagListBody(q), <<>>)] : q \in TagLists }
        \cup { [tags |-> <<>>, res |-> res] :
                  res \in FailedResponses
                      \cup { Response(401, <<"errors">>, <<>>) }
                      \cup { Response(200, b, <<>>) :
                                b \in {<<"null">>, <<"{", "}">>, <<"{">>} } }

\* Archives: up to MaxArchiveEntries entries, complete or truncated.
S_metadata == <<"m", ".", "j", "s", "o", "n">>
S_notes == <<"N", ".", "m", "d">>

ArchiveEntries ==
    { [path |-> <<".", "/", "i", ".", "s", "h">>, type |-> "File", content |-> <<>>],
      [path |-> <<".", "/">> \o S_notes, type |-> "File", content |-> <<>>],
      [path |-> <<".", "/">> \o S_metadata, type |-> "File",
       content |-> <<"{", " ", "a", ":", "1", "}">>],
      [path |-> <<".", "/", "d">>, type |-> "Directory", content |-> <<>>],
      [path |-> <<".", "/", "d", "/">> \o S_notes, type |-> "File", content |-> <<>>] }

Archives ==
    { [entries |-> q, truncated |-> t] :
        q \in SeqsUpTo(ArchiveEntries, MaxArchiveEntries), t \in BOOLEAN }

IgnoredFileLists == { <<>>, <<S_notes>>, <<S_notes, S_metadata>>, <<<<"d">>>> }

MetadataFiles == { Undefined, Defined(S_metadata) }

BlobResponses == FailedResponses \cup { Response(200, a, <<>>) : a \in Archives }

\* Metadata: what each canonical id declares in dependsOn, MaxEdges entries in all.
DependsOnLists ==
    { q \in SeqsUpTo(FeatureRefs, MaxEdges) : \A i, j \in 1..Len(q) : i # j => q[i] # q[j] }

\* The lists of at most n references.
ListsUpTo(n) == { q \in DependsOnLists : Len(q) <= n }

FeatureMetadata ==
    UNION { UNION { { [c \in CanonicalIds |->
                          IF c = "cA" THEN x ELSE IF c = "cB" THEN y ELSE z] :
                      z \in ListsUpTo(MaxEdges - Len(x) - Len(y)) } :
                    y \in ListsUpTo(MaxEdges - Len(x)) } :
            x \in ListsUpTo(MaxEdges) }

\* The features a configuration declares, and the override orders it may give.
ConfigFeatures == { <<"A">>, <<"B", "A1">> }
OverrideOrders == { <<>>, <<"A", "B">>, <<"B", "A">> }

(***************************************************************************)
(* The "features info dependsOn" command.                                  *)
(***************************************************************************)
\* The check of the options: one of --feature and --config, and only one.
featuresInfoDependsOnOptions(argv) ==
    /\ ~(Truthy(argv.feature) /\ Truthy(argv.config))
    /\ ~(~Truthy(argv.feature) /\ ~Truthy(argv.config))

\* Feature ids on the command line: none, one that getRef accepts and one
\* whose tag getRef rejects.
FeatureIds ==
    { Undefined,
      Defined(<<"g","h","c","r",".","i","o","/","o","r","g","/","f","e","a","t",":","v","1">>),
      Defined(<<"g","h","c","r",".","i","o","/","o","r","g","/","f","e","a","t",":","-">>) }

ConfigPaths == { Undefined, Defined(<<"d", ".", "j", "s", "o", "n">>) }

Argvs ==
    { argv \in [feature : FeatureIds, config : ConfigPaths, raw : BOOLEAN] :
          featuresInfoDependsOnOptions(argv) }

\* What readLocalFile gives for the configuration path: the parsed content of
\* the file, nothing, or a rejection when the file cannot be read.
LocalFiles ==
    { Undefined, Rejected("ENOENT") }
        \cup { Defined([features |-> f, overrideFeatureInstallOrder |-> o]) :
                   f \in ConfigFeatures, o \in OverrideOrders }

\* The end of the process: process.exit(code) at a line of the command, or,
\* after the handler's catch (line 36), the end of the event loop, where no
\* exit code was set and the process ends with code 0.
Exited(exitCode, line, result) ==
    Defined([exitCode |-> exitCode, line |-> line, result |-> result])

\* output.raw of the box of a node.
Box(id) == LogLine("Raw", id)

\* printGraph: the box of the node, then the graphs of what it depends on.
RECURSIVE printGraph(_, _)
RECURSIVE printGraphs(_, _, _)
printGraph(graph, canonicalId) ==
    <<Box(graph[canonicalId].id), Box("\n")>>
        \o printGraphs(graph, graph[canonicalId].dependsOn, 1)

printGraphs(graph, dependsOn, i) ==
    IF i > Len(dependsOn) THEN <<>>
    ELSE printGraph(graph, dependsOn[i]) \o printGraphs(graph, dependsOn, i + 1)

\* The loop over the install order: one box for each entry.
printInstallOrder(installOrder) ==
    <<Box("\n")>> \o [i \in 1..Len(installOrder) |-> Box(installOrder[i].id)]

(***************************************************************************)
(* Actions.                                                                *)
(***************************************************************************)
Init ==
    /\ pc = "idle"
    /\ op = "none"
    /\ arg = Undefined
    /\ ret = Undefined
    /\ log = <<>>
    /\ requests = <<>>
    /\ ociCacheDir = {}
    /\ destCachePath = {}
    /\ inflight = <<>>
    /\ disk = <<>>
    /\ stack = <<>>
    /\ nodes = <<>>
    /\ discovered = <<>>

CallGetRef ==
    /\ pc = "idle"
    /\ \E input \in RefInputs :
         \E r \in {getRef(input)} :
             /\ op' = "getRef"
             /\ arg' = [input |-> input]
             /\ ret' = r.ret
             /\ log' = r.log
    /\ pc' = "returned"
    /\ UNCHANGED <<clientVars, builderVars>>

CallGetManifest ==
    /\ pc = "idle"
    /\ \E ref \in {f \in ClientRefs : f.registry = <<"g","h","c","r",".","i","o">>},
          res \in ManifestResponses :
         \E r \in {getManifest(res, ref)} :
             /\ op' = "getManifest"
             /\ arg' = [res |-> res, ref |-> ref]
             /\ ret' = r.ret
             /\ log' = r.log
             /\ requests' = <<Request(<<"url">>, "application/vnd.oci.image.manifest.v1+json")>>
    /\ pc' = "returned"
    /\ UNCHANGED <<ociCacheDir, destCachePath, inflight, disk, builderVars>>

CallFetchOCIManifestIfExists ==
    /\ pc = "idle"
    /\ \E ref \in ClientRefs, manifestDigest \in ManifestDigests, res \in ManifestResponses :
         \E r \in {fetchOCIManifestIfExists(ref, manifestDigest, res)} :
             /\ op' = "fetchOCIManifestIfExists"
             /\ arg' = [res |-> res, ref |-> ref, manifestDigest |-> manifestDigest]
             /\ ret' = r.ret
             /\ log' = r.log
             /\ requests' = r.requests
    /\ pc' = "returned"
    /\ UNCHANGED <<ociCacheDir, destCachePath, inflight, disk, builderVars>>

CallGetImageIndexEntryForPlatform ==
    /\ pc = "idle"
    /\ \E platformInfo \in HostPlatforms,
          input \in { [platforms |-> ps, res |-> Response(200, IndexBody(ps), <<>>)] :
                          ps \in SeqsUpTo(Platforms, MaxIndexEntries) }
                    \cup { [platforms |-> <<>>, res |-> res] :
                              res \in FailedResponses
                                  \cup { Response(200, b, <<>>) : b \in {<<"null">>, <<"{", "}">>} } } :
         \E r \in {getImageIndexEntryForPlatform(input.res, platformInfo)} :
             /\ op' = "getImageIndexEntryForPlatform"
             /\ arg' = [res |-> input.res, platforms |-> input.platforms,
                        platformInfo |-> platformInfo]
             /\ ret' = r.ret
             /\ log' = r.log
             /\ requests' = <<Request(<<"url">>, "application/vnd.oci.image.index.v1+json")>>
    /\ pc' = "returned"
    /\ UNCHANGED <<ociCacheDir, destCachePath, inflight, disk, builderVars>>

CallGetPublishedVersions ==
    /\ pc = "idle"
    /\ \E ref \in {f \in ClientRefs : f.registry = <<"g","h","c","r",".","i","o">>},
          sorted \in BOOLEAN, input \in TagInputs :
         \E r \in {getPublishedVersions(ref, sorted, input.res)} :
             /\ op' = "getPublishedVersions"
             /\ arg' = [res |-> input.res, tags |-> input.tags, sorted |-> sorted, ref |-> ref]
             /\ ret' = r.ret
             /\ log' = r.log
             /\ requests' = r.requests
    /\ pc' = "returned"
    /\ UNCHANGED <<ociCacheDir, destCachePath, inflight, disk, builderVars>>

CallGetBlob ==
    /\ pc = "idle"
    /\ \E ociRef \in {f \in ClientRefs : f.registry = <<"g","h","c","r",".","i","o">>},
          ignoredFilesDuringExtraction \in IgnoredFileLists,
          metadataFile \in MetadataFiles,
          res \in BlobResponses :
         \E r \in {getBlob(res, ignoredFilesDuringExtraction, metadataFile,
                           ociCacheDir, destCachePath)} :
             /\ op' = "getBlob"
             /\ arg' = [res |-> res, ociRef |-> ociRef,
                        ignoredFilesDuringExtraction |-> ignoredFilesDuringExtraction,
                        metadataFile |-> metadataFile]
             /\ ret' = r.ret
             /\ log' = r.log
             /\ ociCacheDir' = r.ociCacheDir
             /\ destCachePath' = r.destCachePath
    /\ requests' = <<Request(<<"url">>, "application/vnd.oci.image.manifest.v1+json")>>
    /\ pc' = "returned"
    /\ UNCHANGED <<inflight, disk, builderVars>>

(***************************************************************************)
(* The graph builder, one step of its recursion at a time.                 *)
(***************************************************************************)
StartBuild(name, roots, input) ==
    /\ pc' = "building"
    /\ op' = name
    /\ arg' = input
    /\ stack' = <<RootFrame(roots)>>
    /\ nodes' = <<>>
    /\ discovered' = <<>>
    /\ UNCHANGED <<ret, log, clientVars>>

CallBuildDependencyGraph ==
    /\ pc = "idle"
    /\ \E dependsOn \in FeatureMetadata :
          StartBuild("buildDependencyGraph", <<"A">>,
                     [roots |-> <<"A">>, dependsOn |-> dependsOn])

CallComputeDependsOnInstallationOrder ==
    /\ pc = "idle"
    /\ \E dependsOn \in FeatureMetadata, roots \in ConfigFeatures,
          override \in OverrideOrders :
          StartBuild("computeDependsOnInstallationOrder", roots,
                     [roots |-> roots, dependsOn |-> dependsOn,
                      overrideFeatureInstallOrder |-> override])

\* featuresInfoDependsOn up to its first awaited call of the builder: the
\* reference is parsed (--feature) or the configuration is read (--config).
CallFeaturesInfoDependsOn ==
    /\ pc = "idle"
    /\ \E argv \in Argvs, file \in LocalFiles, dependsOn \in FeatureMetadata :
         /\ Truthy(argv.feature) => file = Undefined
         /\ op' = "featuresInfoDependsOn"
         /\ arg' = [argv |-> argv, file |-> file, dependsOn |-> dependsOn,
                    overrideFeatureInstallOrder |->
                        IF file.defined THEN file.value.overrideFeatureInstallOrder ELSE <<>>]
         /\ IF Truthy(argv.feature)
            THEN \E r \in {getRef(argv.feature.value)} :
                    IF ~r.ret.defined
                    THEN /\ pc' = "returned"
                         /\ ret' = Exited(1, 68, Undefined)
                         /\ log' = <<LogLine("Info", "Building dependency graph")>> \o r.log
                                      \o <<LogLine("Error", "Provide Feature reference is invalid")>>
                         /\ UNCHANGED builderVars
                    ELSE /\ pc' = "building"
                         /\ log' = <<LogLine("Info", "Building dependency graph")>> \o r.log
                         /\ stack' = <<RootFrame(<<"A">>)>>
                         /\ UNCHANGED <<ret, nodes, discovered>>
            ELSE IF "rejected" \in DOMAIN file
            THEN /\ pc' = "returned"
                 /\ ret' = Exited(0, 36, Undefined)
                 /\ log' = <<LogLine("Console", "console.error")>>
                 /\ UNCHANGED builderVars
            ELSE IF ~file.defined
            THEN /\ pc' = "returned"
                 /\ ret' = Exited(1, 92, Undefined)
                 /\ log' = <<LogLine("Error", "Could not load devcontainer.json file")>>
                 /\ UNCHANGED builderVars
            ELSE /\ pc' = "building"
                 /\ stack' = <<RootFrame(file.value.features)>>
                 /\ UNCHANGED <<ret, log, nodes, discovered>>
    /\ UNCHANGED clientVars

\* featuresInfoDependsOn after the awaited call: the failure is reported, or
\* the graph or the install order is printed, and the process exits.
PresentDependsOn ==
    /\ pc = "presenting"
    /\ pc' = "returned"
    /\ IF ~ret.defined
       THEN IF Truthy(arg.argv.feature)
            THEN /\ ret' = Exited(1, 73, ret)
                 /\ log' = Append(log, LogLine("Error", "Could not build dependency graph."))
            ELSE /\ ret' = Exited(1, 100, ret)
                 /\ log' = Append(log, LogLine("Error", "Could not calculate install order"))
       ELSE /\ ret' = Exited(0, 113, ret)
            /\ log' = IF Truthy(arg.argv.feature)
                      THEN log \o (IF arg.argv.raw
                                   THEN <<LogLine("Info", "JSON.stringify(graph)")>>
                                   ELSE <<>>)
                               \o <<Box("\n")>> \o printGraph(ret.value, CanonicalIdOf("A"))
                      ELSE log \o printInstallOrder(ret.value)
    /\ UNCHANGED <<op, arg, clientVars, builderVars>>

\* The command runs the builder for a graph (--feature) or for an install
\* order (--config), and goes on when the builder is done.
BuildsGraph ==
    \/ op = "buildDependencyGraph"
    \/ op = "featuresInfoDependsOn" /\ Truthy(arg.argv.feature)

BuildDone == IF op = "featuresInfoDependsOn" THEN "presenting" ELSE "returned"

\* The next reference of the top frame is resolved: a node that was built is
\* reused, a node on the active path is a cycle, any other node is entered.
BuildResolve ==
    /\ pc = "building"
    /\ Top.next <= Len(Top.children)
    /\ LET ref == Top.children[Top.next]
           canonicalId == CanonicalIdOf(ref)
       IN  IF canonicalId \in DOMAIN nodes
           THEN /\ stack' = Advance(stack)
                /\ UNCHANGED <<pc, ret, log, nodes, discovered>>
           ELSE IF failsOnActivePath(canonicalId, ActivePath)
           THEN /\ pc' = BuildDone
                /\ ret' = Failure("CycleError")
                /\ log' = Append(log, LogLine("Error", "Could not build dependency graph"))
                /\ UNCHANGED <<stack, nodes, discovered>>
           ELSE /\ Len(stack) < MaxDepth
                /\ stack' = Append(stack, Frame(canonicalId, ref, arg.dependsOn[canonicalId]))
                /\ discovered' = Append(discovered, canonicalId)
                /\ UNCHANGED <<pc, ret, log, nodes>>
    /\ UNCHANGED <<op, arg, clientVars>>

\* All children of the top frame are resolved: its FNode is assembled.
BuildAssemble ==
    /\ pc = "building"
    /\ Len(stack) > 1
    /\ Top.next > Len(Top.children)
    /\ nodes' = (Top.canonicalId :>
                    [id |-> Top.id, canonicalId |-> Top.canonicalId,
                     dependsOn |-> [i \in 1..Len(Top.children)
                                        |-> CanonicalIdOf(Top.children[i])]]) @@ nodes
    /\ stack' = Advance(SubSeq(stack, 1, Len(stack) - 1))
    /\ UNCHANGED <<pc, op, arg, ret, log, discovered, clientVars>>

\* All requested features are resolved: the graph is returned, or ordered.
BuildFinish ==
    /\ pc = "building"
    /\ Len(stack) = 1
    /\ Top.next > Len(Top.children)
    /\ pc' = BuildDone
    /\ ret' = IF BuildsGraph
              THEN Defined(nodes)
              ELSE computeInstallationOrder(nodes, arg.overrideFeatureInstallOrder, discovered)
    /\ log' = IF BuildsGraph \/ ret'.defined
              THEN log
              ELSE Append(log, LogLine("Error", "Could not calculate install order"))
    /\ UNCHANGED <<op, arg, stack, nodes, discovered, clientVars>>

\* The caller takes the result; the next call starts from a fresh state.
Return ==
    /\ pc = "returned"
    /\ pc' = "idle"
    /\ op' = "none"
    /\ arg' = Undefined
    /\ ret' = Undefined
    /\ log' = <<>>
    /\ requests' = <<>>
    /\ ociCacheDir' = {}
    /\ destCachePath' = {}
    /\ inflight' = <<>>
    /\ disk' = <<>>
    /\ stack' = <<>>
    /\ nodes' = <<>>
    /\ discovered' = <<>>

Next ==
    \/ CallGetRef
    \/ CallGetManifest
    \/ CallFetchOCIManifestIfExists
    \/ CallGetImageIndexEntryForPlatform
    \/ CallGetPublishedVersions
    \/ CallGetBlob
    \/ CallBuildDependencyGraph
    \/ CallComputeDependsOnInstallationOrder
    \/ CallFeaturesInfoDependsOn
    \/ BuildResolve
    \/ BuildAssemble
    \/ BuildFinish
    \/ PresentDependsOn
    \/ Return

Spec == Init /\ [][Next]_vars

\* The dependsOn command on its own: the graph builder and the resolver.
BuilderNext ==
    \/ CallBuildDependencyGraph
    \/ CallComputeDependsOnInstallationOrder
    \/ BuildResolve
    \/ BuildAssemble
    \/ BuildFinish
    \/ Return

\* The builder's recursion is a chain of awaited calls on one event loop: it
\* goes on as long as it has a step to take.
FairSpec ==
    /\ Init
    /\ [][BuilderNext]_vars
    /\ WF_vars(BuildResolve) /\ WF_vars(BuildAssemble) /\ WF_vars(BuildFinish)

(***************************************************************************)
(* Concurrent calls of getBlob.  The calls run on one event loop: a call    *)
(* runs from one await to the next, and at every await the other calls may *)
(* run.  A file operation lasts from its start to the await's return.       *)
(***************************************************************************)
\* The calls, by number; "returned" is the position of a call that ended.
Calls == 1..MaxCalls

\* The blob behind a reference: the same reference is served the same blob.
BlobOf(ociRef) ==
    IF ociRef.registry = <<"g","h","c","r",".","i","o">>
    THEN [entries |-> <<[path |-> <<".", "/", "i", ".", "s", "h">>, type |-> "File",
                         content |-> <<>>]>>,
          truncated |-> FALSE]
    ELSE [entries |-> <<[path |-> <<".", "/">> \o S_metadata, type |-> "File",
                         content |-> <<"{", " ", "a", ":", "1", "}">>],
                        [path |-> <<".", "/", "d">>, type |-> "Directory",
                         content |-> <<>>]>>,
          truncated |-> FALSE]

\* The parameters of the concurrent calls.  The first call is for ghcr.io
\* with the directories s1 and d1; the others are for the same or another
\* reference, with the same or other directories.
ConcurrentCalls ==
    { q \in [Calls -> [ociRef : { f \in ClientRefs : Len(f.registry) > 3 },
                       ociCacheDir : {"s1", "s2"},
                       destCachePath : {"d1", "d2"},
                       found : BOOLEAN]] :
        /\ q[1].ociRef.registry = <<"g","h","c","r",".","i","o">>
        /\ q[1].ociCacheDir = "s1"
        /\ q[1].destCachePath = "d1" }

\* mkdirpLocal
mkdirpLocal(dir) == IF dir \in DOMAIN disk THEN disk ELSE (dir :> {}) @@ disk

\* Files written into a directory replace the files of the same path.
WriteFiles(dir, files) ==
    [disk EXCEPT ![dir] = { e \in @ : \A f \in files : f.path # e.path } \cup files]

\* The calls start together: each runs up to its first await (line 453).
CallGetBlobConcurrently ==
    /\ pc = "idle"
    /\ \E q \in ConcurrentCalls, metadataFile \in MetadataFiles :
         /\ arg' = [calls |-> q, ignoredFilesDuringExtraction |-> <<>>,
                    metadataFile |-> metadataFile]
         /\ inflight' = [c \in Calls |->
                            [at |-> "mkdirpLocal(ociCacheDir)", files |-> <<>>,
                             ret |-> Undefined]]
    /\ pc' = "fetching"
    /\ op' = "getBlob concurrently"
    /\ UNCHANGED <<ret, log, requests, ociCacheDir, destCachePath, disk, builderVars>>

\* await mkdirpLocal(ociCacheDir) returns; the request is issued (453-466).
BlobRequest ==
    /\ pc = "fetching"
    /\ \E c \in Calls :
         /\ inflight[c].at = "mkdirpLocal(ociCacheDir)"
         /\ disk' = mkdirpLocal(arg.calls[c].ociCacheDir)
         /\ requests' = Append(requests,
                               Request(<<"url">>, "application/vnd.oci.image.manifest.v1+json"))
         /\ inflight' = [inflight EXCEPT ![c].at = "requestEnsureAuthenticated"]
    /\ UNCHANGED <<pc, op, arg, ret, log, ociCacheDir, destCachePath, builderVars>>

\* await requestEnsureAuthenticated returns (466-478): a status above 299
\* ends the call, any other starts mkdirpLocal(destCachePath).
BlobResponse ==
    /\ pc = "fetching"
    /\ \E c \in Calls :
         /\ inflight[c].at = "requestEnsureAuthenticated"
         /\ IF arg.calls[c].found
            THEN /\ inflight' = [inflight EXCEPT ![c].at = "mkdirpLocal(destCachePath)"]
                 /\ log' = log
            ELSE /\ inflight' = [inflight EXCEPT ![c].at = "returned"]
                 /\ log' = Append(log, LogLine("Error", "Failed to fetch blob"))
    /\ UNCHANGED <<pc, op, arg, ret, requests, ociCacheDir, destCachePath, disk, builderVars>>

\* await mkdirpLocal(destCachePath) returns; writeLocalFile starts (478-479).
BlobWriteStart ==
    /\ pc = "fetching"
    /\ \E c \in Calls :
         /\ inflight[c].at = "mkdirpLocal(destCachePath)"
         /\ disk' = mkdirpLocal(arg.calls[c].destCachePath)
         /\ inflight' = [inflight EXCEPT ![c].at = "writeLocalFile"]
    /\ UNCHANGED <<pc, op, arg, ret, log, requests, ociCacheDir, destCachePath, builderVars>>

\* await writeLocalFile(tempTarballPath, resBody) returns; tar.x starts
\* (479-482).  Two writes of one path at the same time leave the bytes of
\* either, or a mix of them that is not a whole archive.
BlobExtractStart ==
    /\ pc = "fetching"
    /\ \E c \in Calls :
         /\ inflight[c].at = "writeLocalFile"
         /\ \E written \in
                {BlobOf(arg.calls[c].ociRef)}
                    \cup { [entries |-> <<>>, truncated |-> TRUE] : d \in
                             { d \in Calls \ {c} :
                                 /\ inflight[d].at = "writeLocalFile"
                                 /\ arg.calls[d].ociCacheDir = arg.calls[c].ociCacheDir
                                 /\ arg.calls[d].ociRef # arg.calls[c].ociRef } } :
                disk' = WriteFiles(arg.calls[c].ociCacheDir, {BlobTar(written)})
         /\ inflight' = [inflight EXCEPT ![c].at = "tar.x"]
    /\ UNCHANGED <<pc, op, arg, ret, log, requests, ociCacheDir, destCachePath, builderVars>>

\* What tar.x reads from tempTarballPath: the file as it is, or, while
\* another call is writing other bytes to the path, a mix that is not a whole
\* archive.
ReadTarball(c) ==
    { e.content : e \in { e \in disk[arg.calls[c].ociCacheDir] : e.path = BlobTar(<<>>).path } }
        \cup { [entries |-> <<>>, truncated |-> TRUE] : d \in
                 { d \in Calls \ {c} :
                     /\ inflight[d].at = "writeLocalFile"
                     /\ arg.calls[d].ociCacheDir = arg.calls[c].ociCacheDir
                     /\ arg.calls[d].ociRef # arg.calls[c].ociRef } }

\* await tar.x into destCachePath returns (482-510): an archive that is not
\* whole throws into the catch (528-531); without a metadataFile the call
\* returns the files; with one, the second tar.x starts.
BlobExtracted ==
    /\ pc = "fetching"
    /\ \E c \in Calls :
         /\ inflight[c].at = "tar.x"
         /\ \E archive \in ReadTarball(c) :
              \E x \in {extractBlob(archive.entries, arg.ignoredFilesDuringExtraction)} :
                 /\ disk' = WriteFiles(arg.calls[c].destCachePath, x.extracted)
                 /\ IF archive.truncated
                    THEN /\ inflight' = [inflight EXCEPT ![c].at = "returned"]
                         /\ log' = Append(log, LogLine("Error", "Error getting blob"))
                    ELSE /\ log' = Append(log, LogLine("Trace", "Files extracted from blob"))
                         /\ inflight' =
                              IF Truthy(arg.metadataFile)
                              THEN [inflight EXCEPT ![c].at = "tar.x metadataFile",
                                                    ![c].files = x.files]
                              ELSE [inflight EXCEPT
                                      ![c].at = "returned",
                                      ![c].files = x.files,
                                      ![c].ret = Defined([files |-> x.files,
                                                          metadata |-> Undefined])]
    /\ UNCHANGED <<pc, op, arg, ret, requests, ociCacheDir, destCachePath, builderVars>>

\* await tar.x of the metadata file into ociCacheDir returns, and the file is
\* looked for and read (510-527); isLocalFile and readLocalFile only read.
BlobMetadataRead ==
    /\ pc = "fetching"
    /\ \E c \in Calls :
         /\ inflight[c].at = "tar.x metadataFile"
         /\ \E archive \in ReadTarball(c) :
              IF archive.truncated
              THEN /\ inflight' = [inflight EXCEPT ![c].at = "returned"]
                   /\ log' = Append(log, LogLine("Error", "Error getting blob"))
                   /\ disk' = disk
              ELSE /\ disk' = WriteFiles(arg.calls[c].ociCacheDir,
                                         extractMetadataFile(archive.entries,
                                                             arg.metadataFile.value))
                   /\ \E read \in {readMetadata(disk'[arg.calls[c].ociCacheDir],
                                                arg.metadataFile.value)} :
                        /\ log' = log \o read.log
                        /\ inflight' = [inflight EXCEPT
                                          ![c].at = "returned",
                                          ![c].ret = Defined([files |-> inflight[c].files,
                                                              metadata |-> read.metadata])]
    /\ UNCHANGED <<pc, op, arg, ret, requests, ociCacheDir, destCachePath, builderVars>>

\* Every call has returned: the caller has the results.
BlobsReturned ==
    /\ pc = "fetching"
    /\ \A c \in Calls : inflight[c].at = "returned"
    /\ pc' = "returned"
    /\ ret' = Defined([c \in Calls |-> inflight[c].ret])
    /\ UNCHANGED <<op, arg, log, clientVars, builderVars>>

ConcurrentNext ==
    \/ CallGetBlobConcurrently
    \/ BlobRequest
    \/ BlobResponse
    \/ BlobWriteStart
    \/ BlobExtractStart
    \/ BlobExtracted
    \/ BlobMetadataRead
    \/ BlobsReturned
    \/ Return

\* getBlob called for several features at once.
ConcurrentSpec == Init /\ [][ConcurrentNext]_vars

(***************************************************************************)
(* Properties of getRef.                                                   *)
(***************************************************************************)
Contains(s, c) == \E i \in 1..Len(s) : s[i] = c

\* The text after the last '@' of the lower-cased input.
AfterLastAt(input) ==
    LET low == ToLowerCase(input)
    IN  SubSeq(low, LastIndexOf(low, "@") + 2, Len(low))

ValidDigestText(d) ==
    LET parts == Split(d, ":")
    IN  /\ Len(parts) = 2
        /\ parts[1] = S_sha256
        /\ regexForVersionOrDigest(parts[2])

\* C1: an input that holds an '@' yields an OCIRef only when the text after the
\* last '@' is 'sha256', one ':', and a digest that matches the tag/digest grammar.
C1_DigestIsValidated ==
    (op = "getRef" /\ pc = "returned" /\ Contains(arg.input, "@") /\ ret.defined)
        => ValidDigestText(AfterLastAt(arg.input))

\* registry/ns/id:tag with a host[:port] registry, a path of at least two segments
\* that satisfies the path grammar up to letter case, and a tag that satisfies the
\* tag grammar.
HostChars == LowerChars \cup UpperChars \cup DigitChars \cup {".", "-", ":"}

WellFormedTagRef(input) ==
    \E i \in 1..Len(input), j \in 1..Len(input) :
        /\ i < j
        /\ input[i] = "/" /\ input[j] = ":"
        /\ i > 1
        /\ \A k \in 1..(i - 1) : input[k] \in HostChars
        /\ Contains(SubSeq(input, i + 1, j - 1), "/")
        /\ regexForPath(ToLowerCase(SubSeq(input, i + 1, j - 1)))
        /\ regexForVersionOrDigest(SubSeq(input, j + 1, Len(input)))

\* C8: for a well-formed registry/ns/id:tag, getRef succeeds and
\* resource + ':' + version is the input in lower case.
C8_TagRoundTrip ==
    (op = "getRef" /\ pc = "returned" /\ WellFormedTagRef(arg.input))
        => /\ ret.defined
           /\ ret.value.resource \o <<":">> \o ret.value.version = ToLowerCase(arg.input)

\* A well-formed reference with upper-case letters and a registry port was parsed.
C8_Witness ==
    /\ op = "getRef" /\ pc = "returned"
    /\ WellFormedTagRef(arg.input)
    /\ arg.input # ToLowerCase(arg.input)
    /\ ret.defined
    /\ Contains(ret.value.registry, ":")
(***************************************************************************)
(* Properties of getManifest and fetchOCIManifestIfExists.                 *)
(***************************************************************************)
Returned(name) == op = name /\ pc = "returned"

\* C2: without a digest header, contentDigest is 'sha256:' and the SHA-256 of the
\* raw response body text.
C2_DigestOfRawBody ==
    (Returned("getManifest") /\ ret.defined /\ arg.res.resHeaders = <<>>)
        => ret.value.contentDigest = DigestString("sha256", Sha256Hex(arg.res.resBody))

\* The kinds of answer of the registry that the claim C6 is about.
IsTransportFailure(res) == res.kind \in {"none", "throw"}
IsNon2xx(res) == res.kind = "response" /\ res.statusCode > 299
IsMediaTypeMismatch(res) ==
    /\ res.kind = "response" /\ res.statusCode <= 299
    /\ LET parsed == JsonParse(res.resBody)
       IN  /\ parsed.ok
           /\ Member(parsed.value, "config").defined
           /\ Member(Member(parsed.value, "config").value, "mediaType").defined
           /\ Member(Member(parsed.value, "config").value, "mediaType").value.v
                  # DEVCONTAINER_MANIFEST_MEDIATYPE
IsAbsent(res) == IsNon2xx(res) \/ IsMediaTypeMismatch(res)

\* The request is issued: the registry name passes the check of the host name.
Requested == requests # <<>>

\* C6 as claimed: the value returned for a transport failure is never the value
\* returned for a non-2xx response or a media type mismatch.
C6_AbsentDistinctFromFailure ==
    (Returned("fetchOCIManifestIfExists") /\ Requested /\ IsTransportFailure(arg.res))
        => \A res \in ManifestResponses :
              IsAbsent(res)
                  => fetchOCIManifestIfExists(arg.ref, arg.manifestDigest, res).ret # ret

LastLog == log[Len(log)]
NoErrorLogged == \A i \in 1..Len(log) : log[i].level # "Error"

\* C6 as amended: non-2xx, media type mismatch and transport failure all return
\* undefined; they differ only in the lines written to the log.
C6_AbsentAndFailureUndefined ==
    (Returned("fetchOCIManifestIfExists") /\ Requested)
        => /\ IsNon2xx(arg.res) => (ret = Undefined /\ NoErrorLogged)
           /\ IsMediaTypeMismatch(arg.res)
                 => (ret = Undefined
                     /\ LastLog = LogLine("Error", "(!) Unexpected manifest media type"))
           /\ arg.res.kind = "none"
                 => (ret = Undefined /\ LastLog = LogLine("Error", "Request failed"))
           /\ arg.res.kind = "throw"
                 => (ret = Undefined /\ LastLog = LogLine("Error", "Failed to parse JSON"))

\* A manifest of another media type was fetched and reported as undefined.
C6_Witness ==
    /\ Returned("fetchOCIManifestIfExists") /\ Requested
    /\ IsMediaTypeMismatch(arg.res)
    /\ ret = Undefined

(***************************************************************************)
(* Properties of getImageIndexEntryForPlatform.                            *)
(***************************************************************************)
\* The platform an entry must have for a host, in the vocabulary of the OCI spec.
WantedPlatform(info) ==
    [architecture |-> IF info.arch = "x64" THEN "amd64" ELSE info.arch,
     os           |-> IF info.os = "win32" THEN "windows" ELSE info.os]

MatchingEntries ==
    { i \in 1..Len(arg.platforms) :
        arg.platforms[i] = Defined(WantedPlatform(arg.platformInfo)) }

IsIndexResponse ==
    arg.res.kind = "response" /\ arg.res.resBody = IndexBody(arg.platforms)

\* C9: the entry returned is the first one of the index whose platform is the
\* mapped platform of the host; undefined when there is none.
C9_FirstMatchingEntry ==
    (Returned("getImageIndexEntryForPlatform") /\ IsIndexResponse)
        => IF MatchingEntries = {}
           THEN ret = Undefined
           ELSE LET first == CHOOSE i \in MatchingEntries : \A j \in MatchingEntries : i <= j
                IN  ret = Defined(IndexEntry(first, arg.platforms[first]))

\* On a Windows x64 host the second entry, amd64/windows, was selected after an
\* entry that names the platform in the host's own vocabulary.
C9_Witness ==
    /\ Returned("getImageIndexEntryForPlatform") /\ IsIndexResponse
    /\ arg.platformInfo = [arch |-> "x64", os |-> "win32"]
    /\ Len(arg.platforms) = 2
    /\ arg.platforms[1] = Defined([architecture |-> "x64", os |-> "win32"])
    /\ ret.defined
    /\ ret.value = IndexEntry(2, Defined([architecture |-> "amd64", os |-> "windows"]))
(***************************************************************************)
(* Properties of getPublishedVersions.                                     *)
(***************************************************************************)
IsTagListResponse ==
    arg.res.kind = "response" /\ arg.res.statusCode <= 299
        /\ arg.res.resBody = TagListBody(arg.tags)

\* Semantic-version precedence of major.minor.patch: the first differing
\* component decides, compared as a number.
RECURSIVE NumbersLess(_, _)
NumbersLess(a, b) ==
    IF a = <<>> \/ b = <<>> THEN FALSE
    ELSE IF a[1] # b[1] THEN a[1] < b[1]
    ELSE NumbersLess(Tail(a), Tail(b))

VersionNumbers(tag) ==
    LET parts == Split(StringChars(tag), ".")
    IN  [i \in 1..Len(parts) |-> ToNumber(parts[i])]

SemverLess(a, b) == NumbersLess(VersionNumbers(a), VersionNumbers(b))

IsPermutation(a, b) ==
    /\ Len(a) = Len(b)
    /\ \A x \in TagNames :
          Cardinality({i \in 1..Len(a) : a[i] = x}) = Cardinality({i \in 1..Len(b) : b[i] = x})

\* C3: with sorted = true the result is 'latest' first exactly when it was
\* published, then all the other tags in ascending semantic-version precedence.
C3_SortedBySemver ==
    (Returned("getPublishedVersions") /\ arg.sorted /\ IsTagListResponse)
        => /\ ret.defined
           /\ LET hasLatest == \E i \in 1..Len(arg.tags) : arg.tags[i] = "latest"
                  out == ret.value
                  rest == IF hasLatest THEN Tail(out) ELSE out
              IN  /\ hasLatest => (out # <<>> /\ out[1] = "latest")
                  /\ IsPermutation(rest, SelectSeq(arg.tags, LAMBDA f : f # "latest"))
                  /\ \A i, j \in 1..Len(rest) : i < j => ~SemverLess(rest[j], rest[i])

\* C7: a 404 gives the empty list, every other status above 299 gives undefined,
\* and in both cases exactly one request was issued.
C7_NotFoundIsEmptyList ==
    (Returned("getPublishedVersions") /\ arg.res.kind = "response"
            /\ arg.res.statusCode > 299)
        => /\ arg.res.statusCode = 404 => ret = Defined(<<>>)
           /\ arg.res.statusCode # 404 => ret = Undefined
           /\ Len(requests) = 1

\* The registry answered 404 and the empty list was returned.
C7_Witness ==
    /\ Returned("getPublishedVersions")
    /\ arg.res.kind = "response" /\ arg.res.statusCode = 404
    /\ ret = Defined(<<>>)
    /\ Len(requests) = 1
(***************************************************************************)
(* Properties of getBlob.                                                  *)
(***************************************************************************)
IsSubstring(f, path) ==
    \E i \in 1..(Len(path) + 1) :
        i + Len(f) - 1 <= Len(path) /\ SubSeq(path, i, i + Len(f) - 1) = f

HasIgnoredSubstring(path) ==
    \E k \in 1..Len(arg.ignoredFilesDuringExtraction) :
        IsSubstring(arg.ignoredFilesDuringExtraction[k], path)

ArchiveEntrySet ==
    { arg.res.resBody.entries[i] : i \in 1..Len(arg.res.resBody.entries) }

ListedPaths == { ret.value.files[i] : i \in 1..Len(ret.value.files) }

\* C10: on success the files list holds exactly the paths of the regular files of
\* the archive that contain no ignored substring; no ignored entry is in the
\* destination directory, and the directories that are not ignored are in the
\* destination directory without being listed.
C10_FilesAreExtractedRegularFiles ==
    (Returned("getBlob") /\ ret.defined)
        => /\ ListedPaths = { e.path : e \in { x \in ArchiveEntrySet :
                                  x.type = "File" /\ ~HasIgnoredSubstring(x.path) } }
           /\ \A e \in destCachePath : ~HasIgnoredSubstring(e.path)
           /\ \A e \in ArchiveEntrySet :
                 (e.type # "File" /\ ~HasIgnoredSubstring(e.path))
                     => (e \in destCachePath /\ e.path \notin ListedPaths)

\* An archive with an ignored file and a directory was extracted: the ignored
\* file, also named as the metadata file, reached the scratch directory only.
C10_Witness ==
    /\ Returned("getBlob") /\ ret.defined
    /\ \E e \in ArchiveEntrySet : HasIgnoredSubstring(e.path) /\ e \in ociCacheDir
    /\ \E e \in ArchiveEntrySet : e.type = "Directory" /\ e \in destCachePath
    /\ ret.value.metadata.defined
(***************************************************************************)
(* Properties of the graph builder and the order resolver.                 *)
(***************************************************************************)
\* The dependsOn edges between canonical ids that the metadata declares.
DependsOnEdge(parent, child) ==
    \E i \in 1..Len(arg.dependsOn[parent]) : CanonicalIdOf(arg.dependsOn[parent][i]) = child

RECURSIVE ReachableFrom(_)
ReachableFrom(S) ==
    LET more == S \cup { d \in CanonicalIds : \E c \in S : DependsOnEdge(c, d) }
    IN  IF more = S THEN S ELSE ReachableFrom(more)

\* The canonical ids of the requested features and of all they depend on.
Resolved == ReachableFrom({ CanonicalIdOf(arg.roots[i]) : i \in 1..Len(arg.roots) })

\* A dependsOn cycle can be reached from the requested features.
CycleReachable ==
    \E c \in Resolved : c \in ReachableFrom({ d \in CanonicalIds : DependsOnEdge(c, d) })

BuildOps == {"buildDependencyGraph", "computeDependsOnInstallationOrder"}

\* C4: in an install plan every dependency comes strictly before the feature
\* that depends on it, and every resolved canonical id appears exactly once.
C4_DependenciesFirst ==
    (Returned("computeDependsOnInstallationOrder") /\ ret.defined)
        => LET plan == ret.value
               At(c) == { i \in 1..Len(plan) : plan[i].canonicalId = c }
           IN  /\ \A c \in Resolved : Cardinality(At(c)) = 1
               /\ \A i \in 1..Len(plan) : plan[i].canonicalId \in Resolved
               /\ \A parent \in Resolved, child \in Resolved :
                     DependsOnEdge(parent, child)
                         => \A i \in At(parent), j \in At(child) : j < i

\* A dependsOn B, B dependsOn C: the plan is C, B, A.
C4_Witness ==
    /\ Returned("computeDependsOnInstallationOrder") /\ ret.defined
    /\ arg.roots = <<"A">>
    /\ arg.dependsOn = [c \in CanonicalIds |->
                           IF c = "cA" THEN <<"B">> ELSE IF c = "cB" THEN <<"C">> ELSE <<>>]
    /\ [i \in 1..Len(ret.value) |-> ret.value[i].canonicalId] = <<"cC", "cB", "cA">>

\* C5: a build that was started ends, and it ends with CycleError, without a
\* graph or a plan, whenever the metadata holds a dependsOn cycle.
C5_BuildTerminates ==
    (pc = "building")
        ~> (pc = "returned" /\ op \in BuildOps
                /\ (CycleReachable => ret = Failure("CycleError")))

\* A dependsOn B, B dependsOn A: the build failed with CycleError.
C5_Witness ==
    /\ pc = "returned" /\ op = "buildDependencyGraph"
    /\ arg.dependsOn = [c \in CanonicalIds |->
                           IF c = "cA" THEN <<"B">> ELSE IF c = "cB" THEN <<"A">> ELSE <<>>]
    /\ ret = Failure("CycleError")


(***************************************************************************)
(* Properties of the dependsOn command.                                    *)
(***************************************************************************)
IsBox(line) == line.level = "Raw" /\ line.msg # "\n"

\* The boxes printed so far: the entries of a graph or of an install plan.
Boxes == SelectSeq(log, IsBox)

\* The lines at which the command ends after a failure: the invalid reference,
\* the graph that was not built, the configuration that was not loaded, the
\* install order that was not computed, and the catch of an exception.
FailureLines == {68, 73, 92, 100, 36}

\* The whole graph, or the whole install plan, is printed.
PrintedWhole ==
    /\ ret.value.result.defined
    /\ IF Truthy(arg.argv.feature)
       THEN { Boxes[i].msg : i \in 1..Len(Boxes) }
                = { ret.value.result.value[c].id : c \in DOMAIN ret.value.result.value }
       ELSE [i \in 1..Len(Boxes) |-> Boxes[i].msg]
                = [i \in 1..Len(ret.value.result.value) |-> ret.value.result.value[i].id]

\* C11: when the dependsOn command has ended, every overall failure (invalid
\* reference, graph not built, configuration not loaded, install order not
\* computed, or an exception) gave a non-zero exit code, exit code 0 came
\* only after the whole graph or install plan was printed, and nothing of a
\* plan was printed before a failure exit.
C11_FailureExitsNonZero ==
    Returned("featuresInfoDependsOn") =>
        /\ ret.value.line \in FailureLines => ret.value.exitCode # 0
        /\ ret.value.exitCode = 0 => PrintedWhole
        /\ ret.value.exitCode # 0 => Boxes = <<>>


(***************************************************************************)
(* Properties of concurrent calls of getBlob.                              *)
(***************************************************************************)
\* The call has issued its request and has not returned.
Retrieving(c) == inflight[c].at \notin {"mkdirpLocal(ociCacheDir)", "returned"}

\* C12: while getBlob calls run concurrently, no two of them retrieve the
\* same feature at the same time, no two write the same scratch tarball
\* (ociCacheDir/blob.tar) at the same time, and no two extract into the same
\* destination at the same time.
C12_OneRetrievalPerFeature ==
    pc = "fetching" =>
        \A c, d \in Calls :
            c # d =>
                /\ ~(/\ Retrieving(c) /\ Retrieving(d)
                     /\ arg.calls[c].ociRef = arg.calls[d].ociRef)
                /\ ~(/\ inflight[c].at = "writeLocalFile" /\ inflight[d].at = "writeLocalFile"
                     /\ arg.calls[c].ociCacheDir = arg.calls[d].ociCacheDir)
                /\ ~(/\ inflight[c].at = "tar.x" /\ inflight[d].at = "tar.x"
                     /\ arg.calls[c].destCachePath = arg.calls[d].destCachePath)


(***************************************************************************)
(* Properties of the registry check of fetchOCIManifestIfExists.           *)
(***************************************************************************)
\* The hostname of a registry: the registry without its port.
Hostname(registry) ==
    IF IndexOf(registry, ":") < 0 THEN registry
    ELSE Substring(registry, 0, IndexOf(registry, ":"))

\* C13: for every ref whose registry hostname has no dot and is not
\* 'localhost', fetchOCIManifestIfExists returns no manifest and issues no
\* request.
C13_DotlessHostIsRejected ==
    Returned("fetchOCIManifestIfExists") =>
        ((IndexOf(Hostname(arg.ref.registry), ".") < 0
              /\ Hostname(arg.ref.registry) # S_localhost)
            => (~ret.defined /\ requests = <<>>))


(***************************************************************************)
(* Properties of the tag branch of getRef.                                 *)
(***************************************************************************)
\* The text after the first '/' is a path of at least two segments.
HasValidPath(input) ==
    LET rest == SubstringFrom(input, IndexOf(input, "/") + 1)
    IN  /\ IndexOf(input, "/") > 0
        /\ Contains(rest, "/")
        /\ regexForPath(rest)

\* C14: for an input without '@', the text after the last ':' is the tag only
\* when that ':' comes after the last '/'; without a ':', or with the last
\* ':' before the last '/' (a port), an input with a valid path gives a ref
\* whose resource is the whole input, whose registry keeps its ':port', and
\* whose tag is 'latest'.
C14_TagAfterLastSlash ==
    (Returned("getRef") /\ ~Contains(arg.input, "@")) =>
        LET input == ToLowerCase(arg.input)
            indexOfLastColon == LastIndexOf(input, ":")
        IN  IF indexOfLastColon = -1 \/ indexOfLastColon < LastIndexOf(input, "/")
            THEN /\ HasValidPath(input) => ret.defined
                 /\ ret.defined =>
                       /\ ret.value.resource = input
                       /\ ret.value.tag = Defined(S_latest)
                       /\ ret.value.registry = Substring(input, 0, IndexOf(input, "/"))
                       /\ indexOfLastColon # -1 => Contains(ret.value.registry, ":")
            ELSE ret.defined =>
                       /\ ret.value.resource = Substring(input, 0, indexOfLastColon)
                       /\ ret.value.tag = Defined(SubstringFrom(input, indexOfLastColon + 1))

\* A reference with a registry port and no tag was parsed: the tag is 'latest'.
C14_Witness ==
    /\ Returned("getRef") /\ ~Contains(arg.input, "@")
    /\ LastIndexOf(arg.input, ":") # -1
    /\ LastIndexOf(arg.input, ":") < LastIndexOf(arg.input, "/")
    /\ ret.defined
    /\ ret.value.tag = Defined(S_latest)
    /\ Contains(ret.value.registry, ":")


(***************************************************************************)
(* The data model of the references getRef returns.                        *)
(***************************************************************************)
\* C15: every ref returned by getRef has a path that matches the path
\* grammar, resource = registry + '/' + path, a tag (when it has one) that is
\* not empty and matches the tag grammar, and version = digest if defined,
\* else tag if defined, else 'latest'.
C15_RefInvariant ==
    (Returned("getRef") /\ ret.defined) =>
        /\ regexForPath(ret.value.path)
        /\ ret.value.resource = ret.value.registry \o <<"/">> \o ret.value.path
        /\ ret.value.tag.defined =>
              (ret.value.tag.value # <<>> /\ regexForVersionOrDigest(ret.value.tag.value))
        /\ ret.value.version = IF ret.value.digest.defined THEN ret.value.digest.value
                               ELSE IF ret.value.tag.defined THEN ret.value.tag.value
                               ELSE S_latest

====
